---- MODULE Spec2Model ----
(***************************************************************************)
(* Query-metadata resolution (sqlx-macros-core/src/query/mod.rs), the      *)
(* Option<T> decoder (sqlx-core/src/decode.rs) and the process-wide        *)
(* configuration cache (sqlx-core/src/config/mod.rs).                      *)
(***************************************************************************)
EXTENDS Integers, Sequences, FiniteSets, TLC

VARIABLES
    fs,         \* the cache directories on disk: kind and files of each
    fs0,        \* fs as it was when the current expansion began
    build,      \* Metadata::get(), SQLX_OFFLINE_DIR and the registered drivers
    input,      \* QueryMacroInput: sql, arg_exprs, record_type
    pc,         \* position of the expansion
    local,      \* locals of expand_input / expand_with / expand_with_data
    result,     \* what expand_input returned
    log,        \* calls made to the collaborators during the expansion
    peer,       \* a second expansion running at the same time in the same build
    dec,        \* one Option<T>::decode / accepts call
    cell,       \* Config::try_get_with's static CACHE (a OnceCell)
    thr         \* the threads calling Config::try_get_with

vars == <<fs, fs0, build, input, pc, local, result, log, peer, dec, cell, thr>>
queryVars == <<fs, fs0, build, input, pc, local, result, log, peer>>
configVars == <<cell, thr>>

(***************************************************************************)
(* Bounds.                                                                 *)
(***************************************************************************)
MaxArgs == 1
MaxParams == 1
MaxCols == 2
MaxCalls == 2
MaxBytes == 2

None == [tag |-> "None"]
Some(v) == [tag |-> "Some", val |-> v]

RECURSIVE SeqsUpTo(_, _)
SeqsUpTo(S, n) ==
    IF n = 0 THEN {<<>>}
    ELSE LET shorter == SeqsUpTo(S, n - 1)
         IN  shorter \cup {Append(s, x) : s \in {t \in shorter : Len(t) = n - 1}, x \in S}

(***************************************************************************)
(* Paths and the cache directories.                                        *)
(***************************************************************************)
PathJoin(path, name) == Append(path, name)

ManifestDir == <<"ws", "app">>
WorkspaceRoot == <<"ws">>
PrepareDir == <<"ws", "target", "sqlx-prepare">>

LocalCacheDir == PathJoin(ManifestDir, ".sqlx")
WorkspaceCacheDir == PathJoin(WorkspaceRoot, ".sqlx")

Dirs == {PrepareDir, LocalCacheDir, WorkspaceCacheDir}

Queries == {"SELECT id FROM users", "DELETE FROM users"}

\* hash_string: a hex digest of the query text.
hash_string(sql) ==
    CASE sql = "SELECT id FROM users" -> "3fa1c0"
      [] sql = "DELETE FROM users" -> "b27e94"

\* Variant: every query text is given the same file name.
FileNameIgnoringQuery(sql) == <<"query-", "0", ".json">>

\* format!("query-{}.json", hash_string(&input.sql))
FileName(sql) == <<"query-", hash_string(sql), ".json">>

FileNames == {FileName(q) : q \in Queries}

NoFile == [tag |-> "NoFile"]
Malformed == [tag |-> "Malformed"]

PathExists(f, dir, name) ==
    /\ dir \in DOMAIN f
    /\ f[dir].kind = "dir"
    /\ f[dir].files[name] # NoFile

(***************************************************************************)
(* Drivers.                                                                *)
(***************************************************************************)
Postgres == [id |-> "Postgres", db_name |-> "PostgreSQL",
             url_schemes |-> <<"postgres", "postgresql">>]
MySql == [id |-> "MySql", db_name |-> "MySQL",
          url_schemes |-> <<"mysql", "mariadb">>]
PostgresAlt == [id |-> "PostgresAlt", db_name |-> "PostgreSQL",
                url_schemes |-> <<"postgres">>]

DriverLists == {<<Postgres>>, <<MySql, PostgresAlt, Postgres>>}

Contains(seq, x) == \E i \in 1..Len(seq) : seq[i] = x

(***************************************************************************)
(* URLs: a connection string is a sequence of tokens; parsing succeeds     *)
(* when it starts with a scheme and a colon, and lower-cases the scheme.   *)
(***************************************************************************)
Lower(s) ==
    CASE s = "POSTGRES" -> "postgres"
      [] OTHER -> s

Schemes == {"postgres", "POSTGRES", "sqlite", "mysql"}

UrlParse(url) ==
    IF Len(url) >= 2 /\ url[1] \in Schemes /\ url[2] = ":"
    THEN [ok |-> TRUE, scheme |-> Lower(url[1])]
    ELSE [ok |-> FALSE]

(***************************************************************************)
(* Query metadata: what a backend reports about a query, and the artifact  *)
(* that stores it on disk.                                                 *)
(***************************************************************************)
Left(types) == [tag |-> "Left", types |-> types]
Right(num) == [tag |-> "Right", num |-> num]

IdCol == [name |-> "id", type_info |-> "INT4"]
VoidCol == [name |-> "", type_info |-> "VOID"]
WildCol == [name |-> "id: _", type_info |-> "INT4"]

VoidWildCol == [name |-> "id: _", type_info |-> "VOID"]

ColumnSet == {IdCol, VoidCol, WildCol, VoidWildCol}

ParameterSets ==
    {None} \cup {Left(s) : s \in SeqsUpTo({"INT4"}, MaxParams)}
           \cup {Right(n) : n \in 0..MaxParams}

Describes == [parameters : ParameterSets, columns : SeqsUpTo(ColumnSet, MaxCols)]

DynQueryData(query, db_name, describe) ==
    [tag |-> "Data", query |-> query, db_name |-> db_name, describe |-> describe]

Err(text) == [tag |-> "Err", text |-> text]
Ok(val) == [tag |-> "Ok", val |-> val]
Panic(text) == [tag |-> "Panic", text |-> text]

\* DynQueryData::from_data_file: read and parse the file, then compare the
\* recorded query text with the literal query.
from_data_file(f, dir, name, sql) ==
    LET content == f[dir].files[name]
    IN  IF content.tag # "Data" THEN Err("failed to deserialize query data file")
        ELSE IF content.query # sql THEN Err("hash collision for saved query data")
        ELSE Ok(content)

\* QueryData::from_dyn_data for driver DB.
from_dyn_data(db, dyn_data) ==
    IF dyn_data.db_name # db.db_name
    THEN Panic("expected query data for another database")
    ELSE Ok([query |-> dyn_data.query, db_name |-> db.db_name,
             describe |-> dyn_data.describe])

\* QueryData::from_describe for driver DB.
from_describe(db, sql, describe) ==
    [query |-> sql, db_name |-> db.db_name, describe |-> describe]

\* QueryData::save_in: a fresh write of <dir>/query-<hash>.json.
save_in(f, data, dir) ==
    [f EXCEPT ![dir].files[FileName(data.query)] =
        DynQueryData(data.query, data.db_name, data.describe)]

\* Metadata::url_var
url_var(meta) ==
    IF meta.database_url_var = None THEN "DATABASE_URL" ELSE meta.database_url_var.val

(***************************************************************************)
(* expand_input: resolving the data source.                                *)
(***************************************************************************)
\* Variant: the offline flag is not looked at.
IsLiveModeIgnoringOffline(meta) == meta.database_url # None

\* The first match arm: offline: false, database_url: Some(_).
IsLiveMode(meta) == ~meta.offline /\ meta.database_url # None

\* QueryDataSource::live
live(database_url) ==
    LET parsed == UrlParse(database_url)
    IN  IF parsed.ok
        THEN Ok([tag |-> "Live", database_url |-> database_url, scheme |-> parsed.scheme])
        ELSE Err("relative URL without a base")

\* Variant: the local .sqlx is searched before the override directory.
SearchDirsLocalFirst(b) ==
    << [tag |-> "Dir", dir |-> Some(PathJoin(b.meta.manifest_dir, ".sqlx"))],
       [tag |-> "Dir", dir |-> b.offline_dir],
       IF b.meta.workspace_root = None
       THEN [tag |-> "Expect"]
       ELSE [tag |-> "Dir", dir |-> Some(PathJoin(b.meta.workspace_root.val, ".sqlx"))] >>

\* The three closures of `dirs`, each evaluated only when the search gets to it.
SearchDirs(b) ==
    << [tag |-> "Dir", dir |-> b.offline_dir],
       [tag |-> "Dir", dir |-> Some(PathJoin(b.meta.manifest_dir, ".sqlx"))],
       IF b.meta.workspace_root = None
       THEN [tag |-> "Expect"]
       ELSE [tag |-> "Dir", dir |-> Some(PathJoin(b.meta.workspace_root.val, ".sqlx"))] >>

\* filter_map / map / find over `dirs` from position i on.
RECURSIVE FindDataFile(_, _, _, _)
FindDataFile(f, dirs, name, i) ==
    IF i > Len(dirs) THEN [tag |-> "NotFound"]
    ELSE IF dirs[i].tag = "Expect" THEN Panic("failed to find workspace root")
    ELSE IF dirs[i].dir # None /\ PathExists(f, dirs[i].dir.val, name)
         THEN [tag |-> "Found", dir |-> dirs[i].dir.val, index |-> i]
         ELSE FindDataFile(f, dirs, name, i + 1)

OfflineMissText ==
    "SQLX_OFFLINE=true but there is no cached data for this query, run cargo sqlx prepare to update the query cache or unset SQLX_OFFLINE"
OnlineMissText ==
    "set the URL variable to use query macros online, or run cargo sqlx prepare to update the query cache"

\* The paths the search asks the file system about, in order: it stops at the
\* first that exists, and at the workspace-root closure when there is no root.
RECURSIVE ProbedPaths(_, _, _, _)
ProbedPaths(f, dirs, name, i) ==
    IF i > Len(dirs) THEN <<>>
    ELSE IF dirs[i].tag = "Expect" THEN <<>>
    ELSE IF dirs[i].dir = None THEN ProbedPaths(f, dirs, name, i + 1)
    ELSE IF PathExists(f, dirs[i].dir.val, name)
         THEN <<PathJoin(dirs[i].dir.val, name)>>
         ELSE <<PathJoin(dirs[i].dir.val, name)>> \o ProbedPaths(f, dirs, name, i + 1)

\* Variant: the two messages are given to the wrong modes.
CacheMissErrorSwapped(meta) ==
    IF ~meta.offline
    THEN Err(OfflineMissText)
    ELSE [tag |-> "Err", text |-> OnlineMissText, var |-> url_var(meta)]

\* The else branch of the search.
CacheMissError(meta) ==
    IF meta.offline
    THEN Err(OfflineMissText)
    ELSE [tag |-> "Err", text |-> OnlineMissText, var |-> url_var(meta)]

\* Variant: a file that does not load is passed over and the search goes on
\* with the directories after it.
RECURSIVE ResolveSkippingUnloadable(_, _, _, _)
ResolveSkippingUnloadable(b, inp, f, i) ==
    LET found == FindDataFile(f, SearchDirs(b), FileName(inp.sql), i)
    IN  CASE found.tag = "Panic" -> found
          [] found.tag = "NotFound" -> CacheMissError(b.meta)
          [] found.tag = "Found" ->
                LET loaded == from_data_file(f, found.dir, FileName(inp.sql), inp.sql)
                IN  IF loaded.tag = "Ok"
                    THEN Ok([tag |-> "Cached", data |-> loaded.val,
                             path |-> PathJoin(found.dir, FileName(inp.sql))])
                    ELSE ResolveSkippingUnloadable(b, inp, f, found.index + 1)

ResolveDataSourceWithFallback(b, inp, f) ==
    IF IsLiveMode(b.meta)
    THEN live(b.meta.database_url.val)
    ELSE ResolveSkippingUnloadable(b, inp, f, 1)

\* The value of `data_source`, or the early return.
ResolveDataSource(b, inp, f) ==
    IF IsLiveMode(b.meta)
    THEN live(b.meta.database_url.val)
    ELSE LET found == FindDataFile(f, SearchDirs(b), FileName(inp.sql), 1)
         IN  CASE found.tag = "Panic" -> found
               [] found.tag = "NotFound" -> CacheMissError(b.meta)
               [] found.tag = "Found" ->
                    LET loaded == from_data_file(f, found.dir, FileName(inp.sql), inp.sql)
                    IN  IF loaded.tag = "Ok"
                        THEN Ok([tag |-> "Cached", data |-> loaded.val,
                                 path |-> PathJoin(found.dir, FileName(inp.sql))])
                        ELSE loaded

\* The exists() calls of expand_input: none in the Live arm.
CacheProbes(b, inp, f) ==
    IF IsLiveMode(b.meta)
    THEN <<>>
    ELSE ProbedPaths(f, SearchDirs(b), FileName(inp.sql), 1)

(***************************************************************************)
(* expand_input: driver dispatch.                                          *)
(***************************************************************************)
matches_driver(data_source, driver) ==
    IF data_source.tag = "Live"
    THEN Contains(driver.url_schemes, data_source.scheme)
    ELSE data_source.data.db_name = driver.db_name

\* Variant: the loop does not return at the first match and ends on the last.
SelectLastDriver(data_source, drivers, i) ==
    LET hits == {k \in i..Len(drivers) : matches_driver(data_source, drivers[k])}
    IN  IF hits = {} THEN 0 ELSE CHOOSE k \in hits : \A j \in hits : j <= k

\* Variant: when no driver matches, the first registered one is taken.
SelectDriverOrFirst(data_source, drivers, i) ==
    LET hits == {k \in i..Len(drivers) : matches_driver(data_source, drivers[k])}
    IN  IF hits = {} THEN 1 ELSE CHOOSE k \in hits : \A j \in hits : k <= j

\* The for loop: the index of the first driver that matches, 0 when none does.
RECURSIVE SelectDriver(_, _, _)
SelectDriver(data_source, drivers, i) ==
    IF i > Len(drivers) THEN 0
    ELSE IF matches_driver(data_source, drivers[i]) THEN i
    ELSE SelectDriver(data_source, drivers, i + 1)

NoSchemeDriverText ==
    "no database driver found matching URL scheme; the corresponding Cargo feature may need to be enabled"
NoCachedDriverText ==
    "found cached data for database but no matching driver; the corresponding Cargo feature may need to be enabled"

\* Variant: the two arms carry each other's message.
NoDriverErrorSwapped(data_source) ==
    IF data_source.tag = "Live"
    THEN [tag |-> "Err", text |-> NoCachedDriverText, db_name |-> data_source.scheme]
    ELSE [tag |-> "Err", text |-> NoSchemeDriverText, scheme |-> data_source.data.db_name]

\* The final match of expand_input.
NoDriverError(data_source) ==
    IF data_source.tag = "Live"
    THEN [tag |-> "Err", text |-> NoSchemeDriverText, scheme |-> data_source.scheme]
    ELSE [tag |-> "Err", text |-> NoCachedDriverText, db_name |-> data_source.data.db_name]

(***************************************************************************)
(* expand_with_data: arity check, output shape, cache write.               *)
(***************************************************************************)
RecordTypes == {[tag |-> "Generated"], [tag |-> "Given", out_ty |-> "User"], [tag |-> "Scalar"]}

\* num_parameters: -1 stands for None.
NumParameters(describe) ==
    CASE describe.parameters.tag = "Left" -> Len(describe.parameters.types)
      [] describe.parameters.tag = "Right" -> describe.parameters.num
      [] OTHER -> -1

\* Variant: only an explicit parameter list is counted.
ArityCheckListOnly(inp, describe) ==
    IF describe.parameters.tag = "Left" /\ Len(describe.parameters.types) # Len(inp.arg_exprs)
    THEN [tag |-> "Err", text |-> "expected parameters, got",
          expected |-> Len(describe.parameters.types), got |-> Len(inp.arg_exprs)]
    ELSE None

\* The arity check: the error it returns, or None.
ArityCheck(inp, describe) ==
    LET num == NumParameters(describe)
    IN  IF num # -1 /\ num # Len(inp.arg_exprs)
        THEN [tag |-> "Err", text |-> "expected parameters, got",
              expected |-> num, got |-> Len(inp.arg_exprs)]
        ELSE None

\* args::quote_args: one bound argument per argument expression.
quote_args(inp, describe) == Ok([bound |-> Len(inp.arg_exprs)])

is_void(type_info) == type_info = "VOID"

\* Variant: an empty column list does not count as all void.
AllVoidNonEmpty(describe) ==
    /\ describe.columns # <<>>
    /\ \A i \in 1..Len(describe.columns) : is_void(describe.columns[i].type_info)

\* columns().iter().all(|it| it.type_info().is_void())
AllVoid(describe) ==
    \A i \in 1..Len(describe.columns) : is_void(describe.columns[i].type_info)

\* output::columns_to_rust: the field name and host type of a column; a column
\* named with the `: _` override gets the wildcard type.
RustColumn(col) ==
    CASE col.name = "id: _" -> [ident |-> "id", type_ |-> "_"]
      [] col.type_info = "INT4" -> [ident |-> col.name, type_ |-> "i32"]
      [] OTHER -> [ident |-> col.name, type_ |-> "()"]

columns_to_rust(describe) ==
    Ok([i \in 1..Len(describe.columns) |-> RustColumn(describe.columns[i])])

is_wildcard(type_) == type_ = "_"

\* output::quote_query_scalar
quote_query_scalar(db, inp, describe) ==
    IF Len(describe.columns) # 1
    THEN [tag |-> "Err", text |-> "expected exactly 1 column, got",
          got |-> Len(describe.columns)]
    ELSE Ok([shape |-> "Scalar", db_path |-> db.id, sql |-> inp.sql,
             column |-> RustColumn(describe.columns[1])])

\* output::quote_query_as
quote_query_as(db, inp, out_ty, columns) ==
    [shape |-> "QueryAs", db_path |-> db.id, sql |-> inp.sql,
     out_ty |-> out_ty, columns |-> columns]

WildcardText ==
    "wildcard overrides are only allowed with an explicit record type, e.g. query_as!() and its variants"

\* Variant: the record type is matched first and each arm runs its own checks
\* before the void test.
OutputRecordTypeFirst(db, inp, describe) ==
    LET void == Ok([shape |-> "Void", db_path |-> db.id, sql |-> inp.sql])
    IN  CASE inp.record_type.tag = "Generated" ->
                LET columns == columns_to_rust(describe).val
                IN  IF \E i \in 1..Len(columns) : is_wildcard(columns[i].type_)
                    THEN Err(WildcardText)
                    ELSE IF AllVoid(describe) THEN void
                    ELSE Ok([record |-> [name |-> "Record", fields |-> columns],
                             query |-> quote_query_as(db, inp, "Record", columns)])
          [] inp.record_type.tag = "Given" ->
                IF AllVoid(describe) THEN void
                ELSE Ok(quote_query_as(db, inp, inp.record_type.out_ty,
                                       columns_to_rust(describe).val))
          [] OTHER ->
                IF quote_query_scalar(db, inp, describe).tag # "Ok"
                THEN quote_query_scalar(db, inp, describe)
                ELSE IF AllVoid(describe) THEN void
                ELSE quote_query_scalar(db, inp, describe)

\* Variant: the generated record takes wildcard columns as they are.
OutputWithoutWildcardCheck(db, inp, describe) ==
    IF AllVoid(describe)
    THEN Ok([shape |-> "Void", db_path |-> db.id, sql |-> inp.sql])
    ELSE CASE inp.record_type.tag = "Generated" ->
                LET columns == columns_to_rust(describe).val
                IN  Ok([record |-> [name |-> "Record", fields |-> columns],
                        query |-> quote_query_as(db, inp, "Record", columns)])
           [] inp.record_type.tag = "Given" ->
                Ok(quote_query_as(db, inp, inp.record_type.out_ty,
                                  columns_to_rust(describe).val))
           [] OTHER -> quote_query_scalar(db, inp, describe)

\* The `output` expression: the tokens, or the error returned.
Output(db, inp, describe) ==
    IF AllVoid(describe)
    THEN Ok([shape |-> "Void", db_path |-> db.id, sql |-> inp.sql])
    ELSE CASE inp.record_type.tag = "Generated" ->
                LET columns == columns_to_rust(describe).val
                IN  IF \E i \in 1..Len(columns) : is_wildcard(columns[i].type_)
                    THEN Err(WildcardText)
                    ELSE Ok([record |-> [name |-> "Record", fields |-> columns],
                             query |-> quote_query_as(db, inp, "Record", columns)])
           [] inp.record_type.tag = "Given" ->
                Ok(quote_query_as(db, inp, inp.record_type.out_ty,
                                  columns_to_rust(describe).val))
           [] OTHER -> quote_query_scalar(db, inp, describe)

\* ret_tokens, or the error returned before it is built.
Generate(db, inp, describe) ==
    LET arity == ArityCheck(inp, describe)
        out == Output(db, inp, describe)
    IN  IF arity # None THEN arity
        ELSE IF out.tag # "Ok" THEN out
        ELSE Ok([args_tokens |-> quote_args(inp, describe).val, output |-> out.val])

\* fs::metadata(path)
FsMetadata(f, dir) ==
    CASE dir \notin DOMAIN f -> [tag |-> "NotFound"]
      [] f[dir].kind = "missing" -> [tag |-> "NotFound"]
      [] f[dir].kind = "denied" -> [tag |-> "PermissionDenied"]
      [] OTHER -> [tag |-> "Meta", is_dir |-> f[dir].kind = "dir"]

\* Variant: the `!offline` test is missing.
StoreRegardlessOfSource(offline, b, f, data) ==
    IF b.offline_dir = None
    THEN [err |-> None, fs |-> f]
    ELSE LET dir == b.offline_dir.val
             meta == FsMetadata(f, dir)
         IN  CASE meta.tag = "PermissionDenied" ->
                    [err |-> [tag |-> "Err", text |-> "permission denied", dir |-> dir],
                     fs |-> f]
               [] meta.tag = "NotFound" ->
                    [err |-> [tag |-> "Err", text |-> "sqlx offline path does not exist",
                              dir |-> dir],
                     fs |-> f]
               [] meta.tag = "Meta" /\ ~meta.is_dir ->
                    [err |-> [tag |-> "Err",
                              text |-> "sqlx offline path exists, but is not a directory",
                              dir |-> dir],
                     fs |-> f]
               [] OTHER -> [err |-> None, fs |-> save_in(f, data, dir)]

\* Variant: a path that is missing or not a directory skips the write.
StoreSkippingBadDir(offline, b, f, data) ==
    IF offline \/ b.offline_dir = None
    THEN [err |-> None, fs |-> f]
    ELSE LET dir == b.offline_dir.val
             meta == FsMetadata(f, dir)
         IN  IF meta.tag = "Meta" /\ meta.is_dir
             THEN [err |-> None, fs |-> save_in(f, data, dir)]
             ELSE [err |-> None, fs |-> f]

\* The block under "Store query metadata": the error returned (None when the
\* block falls through to Ok(ret_tokens)) and the file system it leaves.
StoreQueryMetadata(offline, b, f, data) ==
    IF offline \/ b.offline_dir = None
    THEN [err |-> None, fs |-> f]
    ELSE LET dir == b.offline_dir.val
             meta == FsMetadata(f, dir)
         IN  CASE meta.tag = "PermissionDenied" ->
                    [err |-> [tag |-> "Err", text |-> "permission denied", dir |-> dir],
                     fs |-> f]
               [] meta.tag = "NotFound" ->
                    [err |-> [tag |-> "Err", text |-> "sqlx offline path does not exist",
                              dir |-> dir],
                     fs |-> f]
               [] meta.tag = "Meta" /\ ~meta.is_dir ->
                    [err |-> [tag |-> "Err",
                              text |-> "sqlx offline path exists, but is not a directory",
                              dir |-> dir],
                     fs |-> f]
               [] OTHER -> [err |-> None, fs |-> save_in(f, data, dir)]

(***************************************************************************)
(* The inputs of an expansion and the directories it starts from.          *)
(***************************************************************************)
PgUrl == <<"postgres", ":", "//localhost/app">>
UpperUrl == <<"POSTGRES", ":", "//localhost/app">>
SqliteUrl == <<"sqlite", ":", "app.db">>
RelativeUrl == <<"localhost/app">>

SelectSql == "SELECT id FROM users"
DeleteSql == "DELETE FROM users"

Metadata(offline, database_url, workspace_root) ==
    [offline |-> offline, database_url |-> database_url, database_url_var |-> None,
     manifest_dir |-> ManifestDir, workspace_root |-> workspace_root]

EmptyDir == [kind |-> "dir", files |-> [n \in FileNames |-> NoFile]]
NoDir(kind) == [kind |-> kind, files |-> [n \in FileNames |-> NoFile]]
DirWith(content) ==
    [kind |-> "dir", files |-> [n \in FileNames |-> IF n = FileName(SelectSql) THEN content ELSE NoFile]]

PlainDescribe == [parameters |-> Right(0), columns |-> <<IdCol>>]
OneParamDescribe == [parameters |-> Right(1), columns |-> <<IdCol>>]
TwoColumnDescribe == [parameters |-> Right(0), columns |-> <<IdCol, VoidCol>>]
WildDescribe == [parameters |-> Right(0), columns |-> <<WildCol>>]

\* What a file named for SelectSql may hold when the expansion starts.
ResolveContents ==
    {NoFile, Malformed,
     DynQueryData(SelectSql, "PostgreSQL", PlainDescribe),
     DynQueryData(SelectSql, "MySQL", PlainDescribe),
     DynQueryData(DeleteSql, "PostgreSQL", PlainDescribe)}

ResolveFs ==
    {[d \in Dirs |-> CASE d = PrepareDir -> p [] d = LocalCacheDir -> l [] OTHER -> w] :
        p \in {NoDir("missing"), NoDir("file"), NoDir("denied")}
              \cup {DirWith(c) : c \in ResolveContents},
        l \in {DirWith(c) : c \in ResolveContents},
        w \in {DirWith(c) : c \in ResolveContents}}

ResolveInputs ==
    [sql : Queries, arg_exprs : {<<>>}, record_type : {[tag |-> "Generated"]}]

ResolveBuilds ==
    {[meta |-> Err("CARGO_MANIFEST_DIR must be set"), offline_dir |-> None,
      drivers |-> <<Postgres>>]}
    \cup [meta : {Ok(Metadata(o, u, w)) :
                    o \in BOOLEAN,
                    u \in {None, Some(PgUrl), Some(UpperUrl), Some(SqliteUrl), Some(RelativeUrl)},
                    w \in {None, Some(WorkspaceRoot)}},
          offline_dir : {None, Some(PrepareDir)},
          drivers : DriverLists]

ResolveSchemas == {PlainDescribe, OneParamDescribe, WildDescribe}

NoLocal ==
    [data_source |-> None, driver |-> 0, query_data |-> None, offline |-> FALSE,
     ret_tokens |-> None]
\* describe: the introspection calls; expand: the drivers invoked; probes: the
\* cache paths asked for; prev: the expansion of the build before this one.
NoLog == [describe |-> <<>>, expand |-> <<>>, probes |-> <<>>, prev |-> None]

(***************************************************************************)
(* The expansion, step by step.                                            *)
(***************************************************************************)
\* A query macro is expanded: expand_input is called.
Begin(Inputs, Builds) ==
    /\ pc = "idle"
    /\ input' \in Inputs
    /\ build' \in Builds
    /\ pc' = "resolve"
    /\ fs0' = fs
    /\ local' = NoLocal
    /\ result' = None
    /\ log' = NoLog
    /\ UNCHANGED <<fs, peer, dec, cell, thr>>

\* expand_input up to the value of data_source.
Resolve ==
    /\ pc = "resolve"
    /\ LET r == IF build.meta.tag = "Ok"
                THEN ResolveDataSource([build EXCEPT !.meta = build.meta.val], input, fs)
                ELSE build.meta
       IN  IF r.tag = "Ok"
           THEN /\ local' = [local EXCEPT !.data_source = r.val]
                /\ pc' = "dispatch"
                /\ UNCHANGED result
           ELSE /\ result' = r
                /\ pc' = "done"
                /\ UNCHANGED local
    /\ log' = [log EXCEPT !.probes =
                  IF build.meta.tag = "Ok"
                  THEN CacheProbes([build EXCEPT !.meta = build.meta.val], input, fs)
                  ELSE <<>>]
    /\ UNCHANGED <<fs, fs0, build, input, peer, dec, cell, thr>>

\* expand_input's loop over the drivers and the match after it.
Dispatch ==
    /\ pc = "dispatch"
    /\ LET i == SelectDriver(local.data_source, build.drivers, 1)
       IN  IF i # 0
           THEN /\ local' = [local EXCEPT !.driver = i]
                /\ log' = [log EXCEPT !.expand = Append(@, build.drivers[i].id)]
                /\ pc' = "expand_with"
                /\ UNCHANGED result
           ELSE /\ result' = NoDriverError(local.data_source)
                /\ pc' = "done"
                /\ UNCHANGED <<local, log>>
    /\ UNCHANGED <<fs, fs0, build, input, peer, dec, cell, thr>>

\* expand_with of the selected driver: the query data and the offline flag.
\* DB::describe_blocking answers with one of Schemas or fails.
ExpandWith(Schemas) ==
    /\ pc = "expand_with"
    /\ LET db == build.drivers[local.driver]
           src == local.data_source
       IN  IF src.tag = "Cached"
           THEN LET r == from_dyn_data(db, src.data)
                IN  /\ IF r.tag = "Ok"
                       THEN /\ local' = [local EXCEPT !.query_data = r.val, !.offline = TRUE]
                            /\ pc' = "expand_with_data"
                            /\ UNCHANGED result
                       ELSE /\ result' = r
                            /\ pc' = "done"
                            /\ UNCHANGED local
                    /\ UNCHANGED log
           ELSE /\ log' = [log EXCEPT !.describe =
                              Append(@, [sql |-> input.sql, url |-> src.database_url])]
                /\ \/ /\ result' = Err("error returned from database")
                      /\ pc' = "done"
                      /\ UNCHANGED local
                   \/ \E describe \in Schemas :
                      /\ local' = [local EXCEPT
                                     !.query_data = from_describe(db, input.sql, describe),
                                     !.offline = FALSE]
                      /\ pc' = "expand_with_data"
                      /\ UNCHANGED result
    /\ UNCHANGED <<fs, fs0, build, input, peer, dec, cell, thr>>

\* Variant: metadata that came from a cache file is not checked for arity.
ExpandWithDataUncheckedCache ==
    /\ pc = "expand_with_data"
    /\ LET db == build.drivers[local.driver]
           out == Output(db, input, local.query_data.describe)
           gen == IF local.offline
                  THEN IF out.tag # "Ok" THEN out
                       ELSE Ok([args_tokens |-> quote_args(input, local.query_data.describe).val,
                                output |-> out.val])
                  ELSE Generate(db, input, local.query_data.describe)
           store == StoreQueryMetadata(local.offline, build, fs, local.query_data)
       IN  IF gen.tag # "Ok"
           THEN /\ result' = gen
                /\ UNCHANGED <<fs, local>>
           ELSE /\ local' = [local EXCEPT !.ret_tokens = gen.val]
                /\ fs' = store.fs
                /\ result' = IF store.err # None THEN store.err ELSE gen
    /\ pc' = "done"
    /\ UNCHANGED <<fs0, build, input, log, peer, dec, cell, thr>>

\* Variant: the metadata is stored before it is validated.
ExpandWithDataStoreFirst ==
    /\ pc = "expand_with_data"
    /\ LET db == build.drivers[local.driver]
           gen == Generate(db, input, local.query_data.describe)
           store == StoreQueryMetadata(local.offline, build, fs, local.query_data)
       IN  /\ fs' = store.fs
           /\ IF store.err # None
              THEN result' = store.err /\ UNCHANGED local
              ELSE IF gen.tag # "Ok"
              THEN result' = gen /\ UNCHANGED local
              ELSE /\ local' = [local EXCEPT !.ret_tokens = gen.val]
                   /\ result' = gen
    /\ pc' = "done"
    /\ UNCHANGED <<fs0, build, input, log, peer, dec, cell, thr>>

\* expand_with_data: validate, build the tokens, store the metadata.
ExpandWithData ==
    /\ pc = "expand_with_data"
    /\ LET db == build.drivers[local.driver]
           gen == Generate(db, input, local.query_data.describe)
           store == StoreQueryMetadata(local.offline, build, fs, local.query_data)
       IN  IF gen.tag # "Ok"
           THEN /\ result' = gen
                /\ UNCHANGED <<fs, local>>
           ELSE /\ local' = [local EXCEPT !.ret_tokens = gen.val]
                /\ fs' = store.fs
                /\ result' = IF store.err # None THEN store.err ELSE gen
    /\ pc' = "done"
    /\ UNCHANGED <<fs0, build, input, log, peer, dec, cell, thr>>

\* What an expansion that ended leaves to compare the next one with.
Finished ==
    [build |-> build, source |-> local.data_source, driver |-> local.driver,
     query_data |-> local.query_data, ret_tokens |-> local.ret_tokens,
     result |-> result]

\* The crate is built again: the same macro invocation is expanded with the
\* same drivers compiled in, the environment may differ, the files stay.
Rebuild(Builds) ==
    /\ pc = "done"
    /\ \E b \in Builds :
          /\ b.drivers = build.drivers
          /\ build' = b
    /\ pc' = "resolve"
    /\ fs0' = fs
    /\ local' = NoLocal
    /\ result' = None
    /\ log' = [NoLog EXCEPT !.prev = Some(Finished)]
    /\ UNCHANGED <<fs, input, peer, dec, cell, thr>>

(***************************************************************************)
(* A second expansion of the same build, interleaved with the first: the   *)
(* same steps over its own input and locals, the same files and            *)
(* environment. served is the set of query texts it returned tokens for.   *)
(***************************************************************************)
IdlePeer ==
    [input |-> None, pc |-> "idle", local |-> NoLocal, result |-> None, served |-> {}]

PeerBegin(Inputs) ==
    /\ peer.pc \in {"idle", "done"}
    /\ build # None
    /\ \E inp \in Inputs :
          peer' = [peer EXCEPT !.input = inp, !.pc = "resolve", !.local = NoLocal,
                               !.result = None]
    /\ UNCHANGED <<fs, fs0, build, input, pc, local, result, log, dec, cell, thr>>

PeerResolve ==
    /\ peer.pc = "resolve"
    /\ LET r == IF build.meta.tag = "Ok"
                THEN ResolveDataSource([build EXCEPT !.meta = build.meta.val], peer.input, fs)
                ELSE build.meta
       IN  IF r.tag = "Ok"
           THEN peer' = [peer EXCEPT !.local.data_source = r.val, !.pc = "dispatch"]
           ELSE peer' = [peer EXCEPT !.result = r, !.pc = "done"]
    /\ UNCHANGED <<fs, fs0, build, input, pc, local, result, log, dec, cell, thr>>

PeerDispatch ==
    /\ peer.pc = "dispatch"
    /\ LET i == SelectDriver(peer.local.data_source, build.drivers, 1)
       IN  IF i # 0
           THEN peer' = [peer EXCEPT !.local.driver = i, !.pc = "expand_with"]
           ELSE peer' = [peer EXCEPT !.result = NoDriverError(peer.local.data_source),
                                     !.pc = "done"]
    /\ UNCHANGED <<fs, fs0, build, input, pc, local, result, log, dec, cell, thr>>

PeerExpandWith(Schemas) ==
    /\ peer.pc = "expand_with"
    /\ LET db == build.drivers[peer.local.driver]
           src == peer.local.data_source
       IN  IF src.tag = "Cached"
           THEN LET r == from_dyn_data(db, src.data)
                IN  IF r.tag = "Ok"
                    THEN peer' = [peer EXCEPT !.local.query_data = r.val,
                                              !.local.offline = TRUE,
                                              !.pc = "expand_with_data"]
                    ELSE peer' = [peer EXCEPT !.result = r, !.pc = "done"]
           ELSE \/ peer' = [peer EXCEPT !.result = Err("error returned from database"),
                                        !.pc = "done"]
                \/ \E describe \in Schemas :
                      peer' = [peer EXCEPT
                                 !.local.query_data = from_describe(db, peer.input.sql, describe),
                                 !.local.offline = FALSE,
                                 !.pc = "expand_with_data"]
    /\ UNCHANGED <<fs, fs0, build, input, pc, local, result, log, dec, cell, thr>>

PeerExpandWithData ==
    /\ peer.pc = "expand_with_data"
    /\ LET db == build.drivers[peer.local.driver]
           gen == Generate(db, peer.input, peer.local.query_data.describe)
           store == StoreQueryMetadata(peer.local.offline, build, fs, peer.local.query_data)
       IN  IF gen.tag # "Ok"
           THEN /\ peer' = [peer EXCEPT !.result = gen, !.pc = "done"]
                /\ UNCHANGED fs
           ELSE /\ fs' = store.fs
                /\ peer' = [peer EXCEPT
                               !.local.ret_tokens = gen.val,
                               !.result = IF store.err # None THEN store.err ELSE gen,
                               !.served = IF store.err # None THEN @ ELSE @ \cup {peer.input.sql},
                               !.pc = "done"]
    /\ UNCHANGED <<fs0, build, input, pc, local, result, log, dec, cell, thr>>

(***************************************************************************)
(* Decode: raw values, three decodable types, and the impl for Option<T>.  *)
(***************************************************************************)
TypeInfos == {"BOOL", "INT2", "TEXT"}
Bytes == {0, 1, 200}

\* A ValueRef: null or not, its type tag, and its bytes when not null.
NullValue(ty) == [is_null |-> TRUE, type_info |-> ty, bytes |-> <<>>]
RawValue(ty, bytes) == [is_null |-> FALSE, type_info |-> ty, bytes |-> bytes]
ValueRefs ==
    {NullValue(ty) : ty \in TypeInfos}
    \cup {RawValue(ty, b) : ty \in TypeInfos, b \in SeqsUpTo(Bytes, MaxBytes)}

DecodeTypes == {"bool", "u8", "str"}

\* T::accepts for the three types.
TAccepts(T, ty) ==
    CASE T = "bool" -> ty = "BOOL"
      [] T = "u8" -> ty = "INT2"
      [] OTHER -> ty = "TEXT"

\* T::decode for the three types.
TDecode(T, value) ==
    IF value.is_null THEN Err("unexpected null; try decoding as an Option")
    ELSE CASE T = "bool" ->
                IF Len(value.bytes) = 1 /\ value.bytes[1] \in {0, 1}
                THEN Ok([bool |-> value.bytes[1] = 1])
                ELSE Err("invalid boolean")
           [] T = "u8" ->
                IF Len(value.bytes) = 1
                THEN Ok([int |-> value.bytes[1]])
                ELSE Err("invalid length")
           [] OTHER ->
                IF \A i \in 1..Len(value.bytes) : value.bytes[i] < 128
                THEN Ok([str |-> value.bytes])
                ELSE Err("invalid utf-8")

\* <Option<T> as Decode>::accepts
OptionAccepts(T, ty) == TAccepts(T, ty)

\* Variant: the null test is missing and every value goes to T::decode.
OptionDecodeWithoutNullTest(T, value) ==
    LET r == TDecode(T, value)
    IN  [out |-> IF r.tag = "Ok" THEN Ok(Some(r.val)) ELSE r,
         inner |-> <<value>>]

\* <Option<T> as Decode>::decode: the result, and the values T::decode was given.
OptionDecode(T, value) ==
    IF value.is_null
    THEN [out |-> Ok(None), inner |-> <<>>]
    ELSE LET r == TDecode(T, value)
         IN  [out |-> IF r.tag = "Ok" THEN Ok(Some(r.val)) ELSE r,
              inner |-> <<value>>]

NoCall == [op |-> "none"]

\* Option<T>::decode is called on a raw value.
DecodeOption ==
    /\ \E T \in DecodeTypes, value \in ValueRefs :
          dec' = [op |-> "decode", T |-> T, value |-> value,
                  out |-> OptionDecode(T, value).out,
                  inner |-> OptionDecode(T, value).inner]
    /\ UNCHANGED <<queryVars, configVars>>

\* Option<T>::accepts is called on a type tag.
AcceptsOption ==
    /\ \E T \in DecodeTypes, ty \in TypeInfos :
          dec' = [op |-> "accepts", T |-> T, ty |-> ty, out |-> OptionAccepts(T, ty)]
    /\ UNCHANGED <<queryVars, configVars>>

(***************************************************************************)
(* Config::try_get_with: a static OnceCell filled by get_or_try_init.      *)
(***************************************************************************)
Threads == {"t1", "t2", "t3"}

\* sqlx.toml files on disk, by the directory make_path names.
ConfigFiles(path) ==
    CASE path = <<"app", "sqlx.toml">> -> Some(<<"[macros]", "database_url_var", "=", "APP_DB">>)
      [] path = <<"lib", "sqlx.toml">> -> Some(<<"[macros]">>)
      [] path = <<"bad", "sqlx.toml">> -> Some(<<"[macros", "=">>)
      [] OTHER -> None

\* What a caller's make_path closure returns.
MakePaths ==
    {Err("CARGO_MANIFEST_DIR must be set and valid")}
    \cup {Ok(<<d, "sqlx.toml">>) : d \in {"app", "lib", "bad", "gone"}}

\* toml::from_str into Config.
ParseToml(toml_s) ==
    CASE toml_s = <<"[macros]", "database_url_var", "=", "APP_DB">> ->
            Ok([macros |-> [database_url_var |-> Some("APP_DB")]])
      [] toml_s = <<"[macros]">> -> Ok([macros |-> [database_url_var |-> None]])
      [] OTHER -> Err("parse")

\* Config::read_from
read_from(path) ==
    LET file == ConfigFiles(path)
    IN  IF file = None
        THEN [tag |-> "Err", text |-> "error reading config file", path |-> path]
        ELSE IF ParseToml(file.val).tag = "Ok"
             THEN ParseToml(file.val)
             ELSE [tag |-> "Err", text |-> "error parsing config file", path |-> path]

\* The closure handed to get_or_try_init.
Initializer(make_path) ==
    IF make_path.tag = "Ok" THEN read_from(make_path.val) ELSE make_path

\* stored: every value ever put in the cell; failed: an initializer has failed.
EmptyCell == [state |-> "Incomplete", value |-> None, stored |-> <<>>, failed |-> FALSE]
IdleThread == [pc |-> "idle", make_path |-> None, ret |-> None, calls |-> 0]

\* A thread calls Config::try_get_with(make_path).
Call(t) ==
    /\ thr[t].pc = "idle"
    /\ thr[t].calls < MaxCalls
    /\ \E mp \in MakePaths :
          thr' = [thr EXCEPT ![t] = [pc |-> "get", make_path |-> mp, ret |-> None,
                                     calls |-> @.calls + 1]]
    /\ UNCHANGED <<cell, queryVars, dec>>

\* get_or_try_init's fast path: the value when the cell is complete.
FastPath(t) ==
    /\ thr[t].pc = "get"
    /\ IF cell.state = "Complete"
       THEN thr' = [thr EXCEPT ![t].pc = "idle", ![t].ret = Ok(cell.value.val)]
       ELSE thr' = [thr EXCEPT ![t].pc = "initialize"]
    /\ UNCHANGED <<cell, queryVars, dec>>

\* Variant: the cell is claimed without looking at its state.
InitializeUnguarded(t) ==
    /\ thr[t].pc = "initialize"
    /\ thr' = [thr EXCEPT ![t].pc = "init"]
    /\ cell' = [cell EXCEPT !.state = "Running"]
    /\ UNCHANGED <<queryVars, dec>>

\* OnceCell::initialize: return when complete, claim the cell when incomplete,
\* wait while another thread's initializer is running.
Initialize(t) ==
    /\ thr[t].pc = "initialize"
    /\ cell.state # "Running"
    /\ IF cell.state = "Complete"
       THEN /\ thr' = [thr EXCEPT ![t].pc = "idle", ![t].ret = Ok(cell.value.val)]
            /\ UNCHANGED cell
       ELSE /\ thr' = [thr EXCEPT ![t].pc = "init"]
            /\ cell' = [cell EXCEPT !.state = "Running"]
    /\ UNCHANGED <<queryVars, dec>>

\* Variant: a failed initializer leaves the default configuration in the cell.
RunInitStoringDefault(t) ==
    /\ thr[t].pc = "init"
    /\ LET r == Initializer(thr[t].make_path)
           stored == IF r.tag = "Ok" THEN r.val ELSE [macros |-> [database_url_var |-> None]]
       IN  /\ cell' = [state |-> "Complete", value |-> Some(stored),
                       stored |-> Append(cell.stored, stored),
                       failed |-> cell.failed \/ r.tag # "Ok"]
           /\ thr' = [thr EXCEPT ![t].pc = "idle", ![t].ret = r]
    /\ UNCHANGED <<queryVars, dec>>

\* The claimed initializer runs: make_path()?, then Self::read_from(path).
RunInit(t) ==
    /\ thr[t].pc = "init"
    /\ LET r == Initializer(thr[t].make_path)
       IN  IF r.tag = "Ok"
           THEN /\ cell' = [state |-> "Complete", value |-> Some(r.val),
                            stored |-> Append(cell.stored, r.val),
                            failed |-> cell.failed]
                /\ thr' = [thr EXCEPT ![t].pc = "idle", ![t].ret = r]
           ELSE /\ cell' = [cell EXCEPT !.state = "Incomplete", !.failed = TRUE]
                /\ thr' = [thr EXCEPT ![t].pc = "idle", ![t].ret = r]
    /\ UNCHANGED <<queryVars, dec>>

(***************************************************************************)
(* Specifications.                                                         *)
(***************************************************************************)
QueryIdle ==
    /\ fs0 = fs
    /\ build = None
    /\ input = None
    /\ pc = "idle"
    /\ local = NoLocal
    /\ result = None
    /\ log = NoLog
    /\ peer = IdlePeer

DecodeIdle == dec = NoCall

ConfigIdle ==
    /\ cell = EmptyCell
    /\ thr = [t \in Threads |-> IdleThread]

\* Expansions over every arrangement of the cache directories.
Init ==
    /\ fs \in ResolveFs
    /\ QueryIdle
    /\ DecodeIdle
    /\ ConfigIdle

Next ==
    \/ Begin(ResolveInputs, ResolveBuilds)
    \/ Resolve
    \/ Dispatch
    \/ ExpandWith(ResolveSchemas)
    \/ ExpandWithData

Spec == Init /\ [][Next]_vars

\* Expansions over every query description, arity and record type: Live
\* into an empty override directory, or offline from one that holds the file.
ShapeInputs ==
    [sql : {SelectSql}, arg_exprs : SeqsUpTo({"expr"}, MaxArgs), record_type : RecordTypes]

ShapeBuilds ==
    [meta : {Ok(Metadata(fs[PrepareDir] # EmptyDir, Some(PgUrl), Some(WorkspaceRoot)))},
     offline_dir : {Some(PrepareDir)},
     drivers : {<<Postgres>>}]

ShapeFs ==
    {[d \in Dirs |-> IF d = PrepareDir THEN p ELSE EmptyDir] :
        p \in {EmptyDir}
              \cup {DirWith(DynQueryData(SelectSql, "PostgreSQL", d)) : d \in Describes}}

InitShape ==
    /\ fs \in ShapeFs
    /\ QueryIdle
    /\ DecodeIdle
    /\ ConfigIdle

NextShape ==
    \/ Begin(ShapeInputs, ShapeBuilds)
    \/ Resolve
    \/ Dispatch
    \/ ExpandWith(Describes)
    \/ ExpandWithData

SpecShape == InitShape /\ [][NextShape]_vars

\* A build followed by further builds of the same source: Live or offline,
\* with or without SQLX_OFFLINE_DIR, over what the earlier builds wrote.
RebuildSchemas == {PlainDescribe, OneParamDescribe, TwoColumnDescribe, WildDescribe}

RebuildBuilds ==
    [meta : {Ok(Metadata(o, Some(PgUrl), Some(WorkspaceRoot))) : o \in BOOLEAN},
     offline_dir : {None, Some(PrepareDir)},
     drivers : {<<Postgres>>, <<MySql, Postgres>>}]

RebuildFs ==
    {[d \in Dirs |-> CASE d = PrepareDir -> p [] d = LocalCacheDir -> l [] OTHER -> EmptyDir] :
        p \in {EmptyDir, NoDir("missing")},
        l \in {EmptyDir} \cup {DirWith(DynQueryData(SelectSql, "PostgreSQL", d)) :
                                  d \in RebuildSchemas}}

InitRebuild ==
    /\ fs \in RebuildFs
    /\ QueryIdle
    /\ DecodeIdle
    /\ ConfigIdle

NextRebuild ==
    \/ Begin(ShapeInputs, RebuildBuilds)
    \/ Resolve
    \/ Dispatch
    \/ ExpandWith(RebuildSchemas)
    \/ ExpandWithData
    \/ Rebuild(RebuildBuilds)

SpecRebuild == InitRebuild /\ [][NextRebuild]_vars

\* Two expansions of one online build that stores its metadata, against a
\* database whose answer for each query text does not change.
StaleDescribe == [parameters |-> Right(0), columns |-> <<VoidCol>>]
ConcurrentInputs ==
    [sql : Queries, arg_exprs : SeqsUpTo({"expr"}, MaxArgs), record_type : {[tag |-> "Generated"]}]

ConcurrentBuilds ==
    [meta : {Ok(Metadata(FALSE, Some(PgUrl), Some(WorkspaceRoot)))},
     offline_dir : {Some(PrepareDir)},
     drivers : {<<Postgres>>},
     schema : [Queries -> {PlainDescribe, OneParamDescribe}]]

ConcurrentFs ==
    {[d \in Dirs |-> IF d = PrepareDir THEN [kind |-> "dir", files |-> files] ELSE EmptyDir] :
        files \in {[n \in FileNames |-> NoFile]}
                  \cup {[n \in FileNames |->
                            IF n = FileName(q)
                            THEN DynQueryData(q, "PostgreSQL", StaleDescribe)
                            ELSE NoFile] : q \in Queries}}

InitConcurrent ==
    /\ fs \in ConcurrentFs
    /\ QueryIdle
    /\ DecodeIdle
    /\ ConfigIdle

NextConcurrent ==
    \/ Begin(ConcurrentInputs, ConcurrentBuilds)
    \/ Resolve
    \/ Dispatch
    \/ ExpandWith({build.schema[input.sql]})
    \/ ExpandWithData
    \/ PeerBegin(ConcurrentInputs)
    \/ PeerResolve
    \/ PeerDispatch
    \/ PeerExpandWith({build.schema[peer.input.sql]})
    \/ PeerExpandWithData

SpecConcurrent == InitConcurrent /\ [][NextConcurrent]_vars

\* Calls of the Option<T> decoder.
InitDecode ==
    /\ fs = [d \in Dirs |-> EmptyDir]
    /\ QueryIdle
    /\ DecodeIdle
    /\ ConfigIdle

NextDecode == DecodeOption \/ AcceptsOption

SpecDecode == InitDecode /\ [][NextDecode]_vars

\* Threads racing through Config::try_get_with.
InitConfig == InitDecode

NextConfig == \E t \in Threads : Call(t) \/ FastPath(t) \/ Initialize(t) \/ RunInit(t)

SpecConfig == InitConfig /\ [][NextConfig]_vars

(***************************************************************************)
(* Properties of the expansion.                                            *)
(***************************************************************************)
Resolved == pc \in {"dispatch", "expand_with", "expand_with_data", "done"} /\ build.meta.tag = "Ok"
Meta == build.meta.val
LiveConfigured == ~Meta.offline /\ Meta.database_url # None
SourceIs(tag) == local.data_source.tag = tag
HasFile(f, dir) == PathExists(f, dir, FileName(input.sql))
FileIn(f, dir) == f[dir].files[FileName(input.sql)]
OverrideHasFile == build.offline_dir # None /\ HasFile(fs0, build.offline_dir.val)
UrlParseFailure == pc = "done" /\ result = Err("relative URL without a base")

\* In any case other than (offline = false, URL configured), introspection is
\* never called and the query data is the artifact read from a cache file.
C1_OnlyCacheOtherwise ==
    (Resolved /\ ~LiveConfigured) =>
        /\ ~SourceIs("Live")
        /\ log.describe = <<>>
        /\ local.query_data # None =>
              /\ SourceIs("Cached")
              /\ \E d \in Dirs : /\ local.data_source.path = PathJoin(d, FileName(input.sql))
                                 /\ FileIn(fs0, d) = local.data_source.data
              /\ local.query_data.describe = local.data_source.data.describe

\* C1 as stated: the data source is Live if and only if offline = false and a
\* database URL is configured; in every other case introspection is never
\* called and the metadata comes only from a cached artifact.
C1_LiveIffOnlineWithUrl ==
    /\ Resolved => (SourceIs("Live") <=> LiveConfigured)
    /\ C1_OnlyCacheOtherwise

\* C1, amended: the data source is Live if and only if offline = false, a
\* database URL is configured and that URL parses; with offline = false and a
\* URL that does not parse the expansion ends with the parse error, having
\* read no cache artifact and called no introspection; in every other case
\* introspection is never called and the metadata comes only from a cached
\* artifact.
C1_LiveIffOnlineWithParsedUrl ==
    /\ Resolved =>
          /\ SourceIs("Live") => LiveConfigured /\ UrlParse(Meta.database_url.val).ok
          /\ LiveConfigured =>
                IF UrlParse(Meta.database_url.val).ok
                THEN SourceIs("Live")
                ELSE UrlParseFailure /\ local.data_source = None /\ log = NoLog
    /\ C1_OnlyCacheOtherwise

\* An offline expansion with a URL configured was served from a cache file.
C1_Witness ==
    /\ Resolved
    /\ Meta.offline /\ Meta.database_url # None
    /\ SourceIs("Cached")
    /\ local.query_data # None
    /\ pc = "done"

\* C2: the artifact loaded comes from the highest-priority directory that
\* contains the file: the override directory when it has it, else the local
\* .sqlx when it has it, else the workspace .sqlx.
C2_HighestPriorityDirWins ==
    (Resolved /\ SourceIs("Cached")) =>
        LET from ==
                IF OverrideHasFile THEN build.offline_dir.val
                ELSE IF HasFile(fs0, LocalCacheDir) THEN LocalCacheDir
                ELSE WorkspaceCacheDir
        IN  /\ HasFile(fs0, from)
            /\ local.data_source.path = PathJoin(from, FileName(input.sql))
            /\ local.data_source.data = FileIn(fs0, from)

\* The file is in all three directories with different contents, and the
\* override directory's copy was loaded.
C2_Witness ==
    /\ Resolved /\ SourceIs("Cached")
    /\ OverrideHasFile
    /\ HasFile(fs0, LocalCacheDir) /\ HasFile(fs0, WorkspaceCacheDir)
    /\ FileIn(fs0, WorkspaceCacheDir) # FileIn(fs0, build.offline_dir.val)
    /\ FileIn(fs0, LocalCacheDir) # FileIn(fs0, build.offline_dir.val)
    /\ local.data_source.data = FileIn(fs0, build.offline_dir.val)

NoCandidateFile ==
    /\ ~OverrideHasFile
    /\ ~HasFile(fs0, LocalCacheDir)
    /\ ~HasFile(fs0, WorkspaceCacheDir)

IsCacheMiss(r) ==
    /\ r.tag = "Err"
    /\ r.text = IF Meta.offline THEN OfflineMissText ELSE OnlineMissText
    /\ ~Meta.offline => r.var = "DATABASE_URL"

NothingExpanded == log.expand = <<>> /\ local.ret_tokens = None /\ log.describe = <<>>

\* C3 as stated: not Live and the file in none of the three locations: the
\* expansion fails with the cache-miss error of its mode, no driver's expand
\* function runs and no binding is produced.
C3_CacheMissByMode ==
    (pc = "done" /\ build.meta.tag = "Ok" /\ ~LiveConfigured /\ NoCandidateFile) =>
        IsCacheMiss(result) /\ NothingExpanded

\* C3, amended: as stated when the workspace root can be determined; when it
\* cannot, the search for the third location panics with "failed to find
\* workspace root" instead of reporting the cache miss. Either way no driver's
\* expand function runs and no binding is produced.
C3_CacheMissOrNoWorkspaceRoot ==
    (pc = "done" /\ build.meta.tag = "Ok" /\ ~LiveConfigured /\ NoCandidateFile) =>
        /\ IF Meta.workspace_root # None
           THEN IsCacheMiss(result)
           ELSE result = Panic("failed to find workspace root")
        /\ NothingExpanded

\* An online build without a URL misses the cache in all three directories.
C3_Witness ==
    /\ pc = "done" /\ build.meta.tag = "Ok"
    /\ ~Meta.offline /\ Meta.database_url = None
    /\ build.offline_dir # None /\ fs0[build.offline_dir.val].kind = "dir"
    /\ NoCandidateFile
    /\ result.tag = "Err" /\ result.text = OnlineMissText

Dispatched == pc \in {"expand_with", "expand_with_data", "done"} /\ local.data_source # None
DriverMatches(driver) ==
    \/ /\ SourceIs("Live")
       /\ \E k \in 1..Len(driver.url_schemes) :
             driver.url_schemes[k] = UrlParse(local.data_source.database_url).scheme
    \/ /\ SourceIs("Cached")
       /\ local.data_source.data.db_name = driver.db_name
FirstMatch(i) ==
    /\ i \in 1..Len(build.drivers)
    /\ DriverMatches(build.drivers[i])
    /\ \A j \in 1..(i - 1) : ~DriverMatches(build.drivers[j])

\* C4: the expand function invoked is that of the first registered driver
\* that matches the data source, and of no other; for given drivers and data
\* source the selection is this one index, or none.
C4_FirstMatchingDriver ==
    Dispatched =>
        /\ local.driver # 0 => FirstMatch(local.driver) /\ log.expand = <<build.drivers[local.driver].id>>
        /\ local.driver = 0 => log.expand = <<>> /\ \A i \in 1..Len(build.drivers) : ~FirstMatch(i)

\* Two registered drivers match a Live source; the earlier one, which is not
\* the first of the list, was invoked.
C4_Witness ==
    /\ Dispatched /\ SourceIs("Live")
    /\ local.driver = 2
    /\ DriverMatches(build.drivers[3])
    /\ log.expand = <<"PostgresAlt">>

NoDriverMatches == \A i \in 1..Len(build.drivers) : ~DriverMatches(build.drivers[i])

\* C5: with no matching driver the expansion fails without a binding; a Cached
\* source gets the "cached data but no matching driver" message naming the
\* artifact's database, a Live source the "no driver for URL scheme" message
\* naming the scheme.
C5_NoMatchingDriver ==
    (pc = "done" /\ local.data_source # None /\ NoDriverMatches) =>
        /\ result.tag = "Err"
        /\ log.expand = <<>> /\ local.ret_tokens = None /\ log.describe = <<>>
        /\ SourceIs("Cached") =>
              result.text = NoCachedDriverText /\ result.db_name = local.data_source.data.db_name
        /\ SourceIs("Live") =>
              result.text = NoSchemeDriverText /\ result.scheme = local.data_source.scheme

\* A MySQL artifact with only the Postgres driver registered.
C5_Witness ==
    /\ pc = "done" /\ SourceIs("Cached")
    /\ local.data_source.data.db_name = "MySQL"
    /\ build.drivers = <<Postgres>>
    /\ result.tag = "Err" /\ result.text = NoCachedDriverText

ServedLive == pc = "done" /\ SourceIs("Live") /\ local.ret_tokens # None

\* C7: the cache directories change during an expansion only when the source
\* is Live and SQLX_OFFLINE_DIR is set, and then only the query's own file in
\* that directory; a Cached expansion leaves every file as it was; a Live
\* expansion without SQLX_OFFLINE_DIR writes nothing and returns its tokens.
C7_WriteOnlyWhenLiveWithOverride ==
    /\ fs # fs0 =>
          /\ pc = "done" /\ SourceIs("Live") /\ build.offline_dir # None
          /\ \A d \in Dirs, n \in FileNames :
                /\ fs[d] # fs0[d] => d = build.offline_dir.val
                /\ fs[d].files[n] # fs0[d].files[n] => n = FileName(input.sql)
                /\ fs[d].kind = fs0[d].kind
    /\ (local.data_source # None /\ SourceIs("Cached")) => fs = fs0
    /\ (ServedLive /\ build.offline_dir = None) =>
          fs = fs0 /\ result = Ok(local.ret_tokens)

\* A Live expansion with SQLX_OFFLINE_DIR set wrote the query's file into a
\* directory that did not hold it, and returned its tokens.
C7_Witness ==
    /\ ServedLive /\ build.offline_dir # None
    /\ ~OverrideHasFile
    /\ HasFile(fs, build.offline_dir.val)
    /\ FileIn(fs, build.offline_dir.val).describe = local.query_data.describe
    /\ result = Ok(local.ret_tokens)

\* A Cached expansion with SQLX_OFFLINE_DIR set, served from the local .sqlx,
\* that returned its tokens.
C7_WitnessCached ==
    /\ pc = "done" /\ local.data_source # None /\ SourceIs("Cached")
    /\ build.offline_dir # None /\ fs0[build.offline_dir.val].kind = "dir"
    /\ ~OverrideHasFile
    /\ result.tag = "Ok"

\* A Live expansion without SQLX_OFFLINE_DIR that returned its tokens.
C7_WitnessLive ==
    /\ ServedLive /\ build.offline_dir = None /\ result.tag = "Ok"

\* C8: a Live expansion with SQLX_OFFLINE_DIR naming a path that does not
\* exist, or that is not a directory, fails after validation succeeded: the
\* tokens are not returned and nothing is written.
C8_PersistFailsOnBadDir ==
    (ServedLive /\ build.offline_dir # None) =>
        LET kind == fs0[build.offline_dir.val].kind
        IN  /\ kind = "missing" =>
                  /\ result.tag = "Err"
                  /\ result.text = "sqlx offline path does not exist"
                  /\ fs = fs0
            /\ kind = "file" =>
                  /\ result.tag = "Err"
                  /\ result.text = "sqlx offline path exists, but is not a directory"
                  /\ fs = fs0

\* Validation succeeded in a Live expansion whose SQLX_OFFLINE_DIR names a
\* file, and the expansion failed.
C8_Witness ==
    /\ ServedLive
    /\ build.offline_dir # None /\ fs0[build.offline_dir.val].kind = "file"
    /\ result.tag = "Err"

Validating == pc = "done" /\ local.query_data # None
Declared == local.query_data.describe.parameters
Supplied == Len(input.arg_exprs)
IsArityError(r, n, m) ==
    /\ r.tag = "Err"
    /\ r.text = "expected parameters, got"
    /\ r.expected = n /\ r.got = m

\* C6: when the metadata declares N parameters, as a list of length N or as
\* the bare count N, and M # N arguments are supplied, the expansion fails
\* with the arity error and builds no tokens (and writes no file); when the
\* count is unknown there is no arity error whatever M is.
C6_ArityMismatchFails ==
    Validating =>
        /\ (Declared.tag = "Left" /\ Len(Declared.types) # Supplied) =>
              /\ IsArityError(result, Len(Declared.types), Supplied)
              /\ local.ret_tokens = None /\ fs = fs0
        /\ (Declared.tag = "Right" /\ Declared.num # Supplied) =>
              /\ IsArityError(result, Declared.num, Supplied)
              /\ local.ret_tokens = None /\ fs = fs0
        /\ Declared = None =>
              ~(result.tag = "Err" /\ result.text = "expected parameters, got")
        /\ (result.tag = "Err" /\ result.text = "expected parameters, got") =>
              Declared # None /\ result.expected # Supplied

\* A bare count of 1 with no argument supplied fails; an unknown count with
\* an argument supplied does not.
C6_Witness ==
    /\ Validating
    /\ Declared = Right(1) /\ Supplied = 0
    /\ IsArityError(result, 1, 0)

C6_WitnessUnknown ==
    /\ Validating
    /\ Declared = None /\ Supplied = 1
    /\ result.tag = "Ok"

\* The first of override, local .sqlx and workspace .sqlx that holds the file.
FirstHolder ==
    IF OverrideHasFile THEN Some(build.offline_dir.val)
    ELSE IF HasFile(fs0, LocalCacheDir) THEN Some(LocalCacheDir)
    ELSE IF Meta.workspace_root # None /\ HasFile(fs0, WorkspaceCacheDir)
         THEN Some(WorkspaceCacheDir)
         ELSE None
Unloadable(content) == content.tag # "Data" \/ content.query # input.sql
LoadError(content) ==
    IF content.tag # "Data"
    THEN Err("failed to deserialize query data file")
    ELSE Err("hash collision for saved query data")
Loadable(dir) == HasFile(fs0, dir) /\ ~Unloadable(FileIn(fs0, dir))

\* C18: when the source is not Live and the first directory that holds the
\* file holds one that does not load, malformed or recorded for another query
\* text, the expansion ends with that load error: no data source, no driver
\* invoked, no introspection call, whatever the directories after it hold and
\* whether or not a database URL is configured.
C18_LoadFailureIsFinal ==
    (Resolved /\ ~LiveConfigured /\ FirstHolder # None
              /\ Unloadable(FileIn(fs0, FirstHolder.val))) =>
        /\ pc = "done"
        /\ result = LoadError(FileIn(fs0, FirstHolder.val))
        /\ local.data_source = None
        /\ NothingExpanded
        /\ fs = fs0

\* The override directory holds a malformed file, the local .sqlx one that
\* loads and a URL is configured: the expansion failed.
C18_Witness ==
    /\ Resolved /\ ~LiveConfigured
    /\ OverrideHasFile /\ FileIn(fs0, build.offline_dir.val) = Malformed
    /\ Loadable(LocalCacheDir)
    /\ Meta.database_url = Some(PgUrl)
    /\ result = Err("failed to deserialize query data file")

\* The local .sqlx holds a file recorded for another query text and the
\* workspace .sqlx one that loads: the expansion failed.
C18_WitnessOtherQuery ==
    /\ Resolved /\ ~LiveConfigured
    /\ FirstHolder = Some(LocalCacheDir)
    /\ Loadable(WorkspaceCacheDir)
    /\ result = Err("hash collision for saved query data")

\* C16: an expansion that ends in an error, whichever it is, leaves every
\* cache directory as it was when the expansion began; the directories differ
\* from then only once the expansion has ended with the tokens built and
\* returned, so the write comes after the arity and shape checks, and it
\* adds or replaces the one file named for the query text.
C16_ErrorsWriteNothing ==
    /\ (pc = "done" /\ result.tag # "Ok") => fs = fs0
    /\ pc # "done" => fs = fs0
    /\ fs # fs0 =>
          /\ pc = "done" /\ result.tag = "Ok"
          /\ local.ret_tokens # None /\ result.val = local.ret_tokens
          /\ \A d \in Dirs : \A n \in FileNames :
                fs[d].files[n] # fs0[d].files[n] =>
                    d = build.offline_dir.val /\ n = FileName(input.sql)

\* A Live expansion whose SQLX_OFFLINE_DIR is a directory failed on a
\* wildcard column, after introspection and the arity check, and wrote nothing.
C16_Witness ==
    /\ pc = "done" /\ SourceIs("Live")
    /\ build.offline_dir # None /\ fs0[build.offline_dir.val].kind = "dir"
    /\ result = Err(WildcardText)
    /\ fs = fs0

\* The same build wrote the file when validation succeeded.
C16_WitnessWrite ==
    /\ pc = "done" /\ SourceIs("Live")
    /\ result.tag = "Ok" /\ fs # fs0

SchemeRegistered ==
    \E i \in 1..Len(build.drivers) : \E k \in 1..Len(build.drivers[i].url_schemes) :
        build.drivers[i].url_schemes[k] = UrlParse(Meta.database_url.val).scheme

\* C20: an expansion calls introspection at most once, and only from the
\* expand function of a driver that dispatch selected and that matches the
\* Live source; a Live configuration whose URL does not parse, or whose
\* scheme no registered driver lists, ends in the parse error or the
\* no-driver error with no introspection call, no driver invoked and no cache
\* path asked for.
C20_IntrospectionAfterDispatch ==
    /\ Len(log.describe) <= 1
    /\ log.describe # <<>> =>
          /\ Resolved /\ SourceIs("Live")
          /\ pc \in {"expand_with_data", "done"}
          /\ local.driver \in 1..Len(build.drivers)
          /\ DriverMatches(build.drivers[local.driver])
          /\ log.expand = <<build.drivers[local.driver].id>>
          /\ log.describe[1] = [sql |-> input.sql, url |-> Meta.database_url.val]
    /\ (Resolved /\ LiveConfigured) =>
          /\ log.probes = <<>>
          /\ ~UrlParse(Meta.database_url.val).ok =>
                /\ pc = "done" /\ result = Err("relative URL without a base")
                /\ NothingExpanded /\ fs = fs0
          /\ (UrlParse(Meta.database_url.val).ok /\ ~SchemeRegistered) =>
                /\ pc \in {"dispatch", "done"}
                /\ NothingExpanded /\ fs = fs0
                /\ pc = "done" =>
                      /\ result.tag = "Err" /\ result.text = NoSchemeDriverText
                      /\ result.scheme = UrlParse(Meta.database_url.val).scheme

\* A sqlite URL with only other drivers registered, while the override
\* directory holds a loadable file for the query: the no-driver error.
C20_Witness ==
    /\ Resolved /\ LiveConfigured /\ pc = "done"
    /\ Meta.database_url = Some(SqliteUrl)
    /\ OverrideHasFile /\ Loadable(build.offline_dir.val)
    /\ result.tag = "Err" /\ result.text = NoSchemeDriverText
    /\ log.describe = <<>> /\ log.probes = <<>>

\* A URL that does not parse: the parse error, nothing called.
C20_WitnessParse ==
    /\ Resolved /\ LiveConfigured /\ pc = "done"
    /\ Meta.database_url = Some(RelativeUrl)
    /\ result = Err("relative URL without a base")
    /\ log.describe = <<>> /\ log.probes = <<>>

\* A Live expansion that made its one introspection call and returned tokens.
C20_WitnessCalled ==
    /\ pc = "done" /\ Len(log.describe) = 1 /\ result.tag = "Ok"

\* An offline expansion asked for all three cache paths.
C20_WitnessProbes ==
    /\ Resolved /\ ~LiveConfigured /\ Len(log.probes) = 3

(***************************************************************************)
(* Properties of the output shape.                                         *)
(***************************************************************************)
Columns == local.query_data.describe.columns
EveryColumnVoid == \A i \in 1..Len(Columns) : Columns[i].type_info = "VOID"
HasWildcardColumn == \E i \in 1..Len(Columns) : RustColumn(Columns[i]).type_ = "_"
\* The expansion got past the arity check.
ArityPassed ==
    /\ Validating
    /\ Declared.tag = "Left" => Len(Declared.types) = Supplied
    /\ Declared.tag = "Right" => Declared.num = Supplied
RecordTypeIs(tag) == input.record_type.tag = tag
IsColumnCountError(r) ==
    r.tag = "Err" /\ r.text = "expected exactly 1 column, got" /\ r.got = Len(Columns)
VoidBinding == [shape |-> "Void", db_path |-> Postgres.id, sql |-> input.sql]
NoBinding == local.ret_tokens = None /\ fs = fs0

\* C13 as stated: with the Scalar shape the expansion fails, and builds no
\* tokens, whenever the column count is not exactly one, zero columns
\* included; it succeeds with the single-value binding only for one column.
C13_ScalarNeedsOneColumn ==
    (ArityPassed /\ RecordTypeIs("Scalar")) =>
        /\ Len(Columns) # 1 => IsColumnCountError(result) /\ NoBinding
        /\ (result.tag = "Ok" /\ result.val.output.shape = "Scalar") => Len(Columns) = 1

\* C13, amended: with the Scalar shape and at least one column that is not
\* void, the expansion fails with the column-count error and builds no tokens
\* whenever the column count is not exactly one, and returns the single-value
\* binding when it is one; when every column is void, and so when there is no
\* column at all, it returns the void binding and no error.
C13_ScalarNeedsOneColumnUnlessVoid ==
    (ArityPassed /\ RecordTypeIs("Scalar")) =>
        /\ (~EveryColumnVoid /\ Len(Columns) # 1) =>
              IsColumnCountError(result) /\ NoBinding
        /\ (~EveryColumnVoid /\ Len(Columns) = 1) =>
              /\ result.tag = "Ok"
              /\ result.val.output.shape = "Scalar"
              /\ result.val.output.column = RustColumn(Columns[1])
        /\ EveryColumnVoid => result.tag = "Ok" /\ result.val.output = VoidBinding
        /\ (result.tag = "Ok" /\ result.val.output.shape = "Scalar") => Len(Columns) = 1

\* Two columns, one of them not void, under the Scalar shape: the
\* column-count error.
C13_Witness ==
    /\ ArityPassed /\ RecordTypeIs("Scalar")
    /\ Len(Columns) = 2 /\ ~EveryColumnVoid
    /\ IsColumnCountError(result)

\* No column at all under the Scalar shape: the void binding.
C13_WitnessNoColumn ==
    /\ ArityPassed /\ RecordTypeIs("Scalar")
    /\ Columns = <<>>
    /\ result.tag = "Ok" /\ result.val.output = VoidBinding

\* C14: with a generated record and at least one column that is not void,
\* the expansion fails with the wildcard error and builds no tokens if any
\* column's type is a wildcard, and not otherwise; with a given record type
\* the same columns give the query_as binding with the wildcard kept.
C14_WildcardNeedsGivenRecord ==
    (ArityPassed /\ ~EveryColumnVoid) =>
        /\ (RecordTypeIs("Generated") /\ HasWildcardColumn) =>
              result = Err(WildcardText) /\ NoBinding
        /\ (RecordTypeIs("Generated") /\ ~HasWildcardColumn) =>
              result.tag = "Ok" /\ result.val.output.record.name = "Record"
        /\ RecordTypeIs("Given") =>
              /\ result.tag = "Ok"
              /\ result.val.output.shape = "QueryAs"
              /\ result.val.output.out_ty = input.record_type.out_ty
              /\ \A i \in 1..Len(Columns) :
                    result.val.output.columns[i] = RustColumn(Columns[i])

\* A wildcard column and a generated record: the wildcard error.
C14_Witness ==
    /\ ArityPassed /\ ~EveryColumnVoid
    /\ RecordTypeIs("Generated") /\ HasWildcardColumn
    /\ result = Err(WildcardText)

\* The same wildcard column and a given record type: the binding.
C14_WitnessGiven ==
    /\ ArityPassed /\ ~EveryColumnVoid
    /\ RecordTypeIs("Given") /\ HasWildcardColumn
    /\ result.tag = "Ok"

\* C15: whenever every column is void, and so when the column list is empty,
\* the binding is the void binding whatever record type was asked for: no
\* wildcard error and no column-count error is returned.
C15_VoidBeforeRecordType ==
    (ArityPassed /\ EveryColumnVoid) =>
        /\ result = Ok([args_tokens |-> [bound |-> Supplied], output |-> VoidBinding])
        /\ local.ret_tokens = result.val

\* Two void columns, one of them with a wildcard override, under a generated
\* record: the void binding.
C15_Witness ==
    /\ ArityPassed /\ EveryColumnVoid
    /\ Len(Columns) = 2 /\ HasWildcardColumn
    /\ RecordTypeIs("Generated")
    /\ result.tag = "Ok" /\ result.val.output = VoidBinding

\* An empty column list under a given record type: the void binding.
C15_WitnessEmpty ==
    /\ ArityPassed /\ Columns = <<>>
    /\ RecordTypeIs("Given")
    /\ result.tag = "Ok" /\ result.val.output = VoidBinding

(***************************************************************************)
(* Properties of a build and the build before it.                          *)
(***************************************************************************)
Prev == log.prev.val
IsPersistError(r) ==
    /\ r.tag = "Err"
    /\ r.text \in {"sqlx offline path does not exist",
                   "sqlx offline path exists, but is not a directory",
                   "permission denied"}

\* Two consecutive expansions of the same input reached expand_with_data with
\* the same query description, one from a Live source, one from a cache file.
SameSchemaOtherSource ==
    /\ pc = "done" /\ log.prev # None
    /\ local.query_data # None /\ Prev.query_data # None
    /\ Prev.source.tag # local.data_source.tag
    /\ Prev.query_data.describe = local.query_data.describe
    /\ Prev.driver = local.driver
LiveResult == IF SourceIs("Live") THEN result ELSE Prev.result
CachedResult == IF SourceIs("Live") THEN Prev.result ELSE result

\* C11 as stated: for one input and one query description the outcome of the
\* expansion is the same whether the description came from the database or
\* from a cache file.
C11_OutcomeIgnoresSource ==
    SameSchemaOtherSource => Prev.result = result

\* C11, amended: for one input and one query description the validation
\* outcome is the same for both kinds of source, the same tokens or the same
\* arity or shape error; the results differ only when the tokens were built
\* and the Live expansion then failed to store the metadata, which the cached
\* expansion never attempts.
C11_ValidationIgnoresSource ==
    SameSchemaOtherSource =>
        /\ Prev.ret_tokens = local.ret_tokens
        /\ local.ret_tokens = None => Prev.result = result /\ result.tag = "Err"
        /\ local.ret_tokens # None =>
              /\ CachedResult = Ok(local.ret_tokens)
              /\ LiveResult = CachedResult \/ IsPersistError(LiveResult)

\* Two columns, no parameters, a generated record: the Live expansion and the
\* offline one that read what it stored returned the same tokens.
C11_Witness ==
    /\ SameSchemaOtherSource
    /\ local.query_data.describe = TwoColumnDescribe
    /\ input.arg_exprs = <<>> /\ input.record_type.tag = "Generated"
    /\ result.tag = "Ok" /\ Prev.result = result

\* The same description, and the Live expansion alone failed: its
\* SQLX_OFFLINE_DIR does not exist.
C11_WitnessPersist ==
    /\ SameSchemaOtherSource
    /\ IsPersistError(LiveResult) /\ CachedResult.tag = "Ok"

\* The build before this one was Live, returned its tokens and stored the
\* metadata under SQLX_OFFLINE_DIR; this one is offline with the same
\* SQLX_OFFLINE_DIR.
OfflineAfterLive ==
    /\ log.prev # None
    /\ Prev.source.tag = "Live" /\ Prev.result.tag = "Ok"
    /\ Prev.build.offline_dir # None
    /\ Meta.offline /\ build.offline_dir = Prev.build.offline_dir

\* C17: after a Live expansion returned its tokens with SQLX_OFFLINE_DIR
\* naming an existing directory, an offline expansion of the same macro
\* invocation with the same SQLX_OFFLINE_DIR reads the file the Live one
\* stored there, whatever the local .sqlx holds, with no introspection call,
\* invokes the same driver and returns the same tokens.
C17_OfflineReplaysLive ==
    OfflineAfterLive =>
        /\ pc # "resolve" =>
              /\ SourceIs("Cached")
              /\ local.data_source.path =
                    PathJoin(build.offline_dir.val, FileName(input.sql))
              /\ local.data_source.data.describe = Prev.query_data.describe
              /\ log.describe = <<>>
        /\ pc \in {"expand_with", "expand_with_data", "done"} =>
              local.driver = Prev.driver
        /\ pc = "done" =>
              result = Prev.result /\ local.ret_tokens = Prev.ret_tokens

\* The offline expansion returned the Live one's tokens while the local .sqlx
\* holds a file for the query with another description.
C17_Witness ==
    /\ OfflineAfterLive /\ pc = "done"
    /\ result.tag = "Ok" /\ result = Prev.result
    /\ Len(build.drivers) = 2
    /\ HasFile(fs, LocalCacheDir)
    /\ FileIn(fs, LocalCacheDir).describe # local.query_data.describe

(***************************************************************************)
(* Properties of two expansions running at the same time.                  *)
(***************************************************************************)
CacheFile(f, q) == f[PrepareDir].files[FileName(q)]
\* What one expansion of q alone stores: the text, the backend, the description.
StoredFor(q) == DynQueryData(q, Postgres.db_name, build.schema[q])
\* An expansion of q has returned its tokens.
Served(q) ==
    \/ pc = "done" /\ result.tag = "Ok" /\ input.sql = q
    \/ q \in peer.served

\* C12: with Live expansions running at the same time against a database
\* whose description of each query text does not change, and SQLX_OFFLINE_DIR
\* set, the cache file of a query text holds, once an expansion of that text
\* has returned its tokens and whatever the order of the writes, exactly what
\* one expansion alone stores; a file that changed was written by an
\* expansion of its own query text; nothing else on disk changes.
C12_ConcurrentWritesAgree ==
    build # None =>
        /\ \A q \in Queries :
              /\ Served(q) => CacheFile(fs, q) = StoredFor(q)
              /\ CacheFile(fs, q) # CacheFile(fs0, q) =>
                    Served(q) /\ CacheFile(fs, q) = StoredFor(q)
        /\ \A d \in Dirs : fs[d].kind = fs0[d].kind
        /\ \A d \in Dirs \ {PrepareDir} : fs[d] = fs0[d]

\* Both expansions of the same text have stored it over a stale file, the
\* peer more than once, and the file of the other text is as it was.
C12_Witness ==
    /\ pc = "done" /\ result.tag = "Ok" /\ input.sql = SelectSql
    /\ SelectSql \in peer.served /\ peer.pc = "expand_with_data"
    /\ peer.input.sql = SelectSql
    /\ CacheFile(fs0, SelectSql) = DynQueryData(SelectSql, "PostgreSQL", StaleDescribe)
    /\ CacheFile(fs, SelectSql) = StoredFor(SelectSql)
    /\ CacheFile(fs, DeleteSql) = NoFile

\* Expansions of the two texts have both stored their files.
C12_WitnessTwoTexts ==
    /\ pc = "done" /\ result.tag = "Ok" /\ input.sql = SelectSql
    /\ peer.pc = "done" /\ peer.result.tag = "Ok" /\ peer.input.sql = DeleteSql
    /\ CacheFile(fs, SelectSql) = StoredFor(SelectSql)
    /\ CacheFile(fs, DeleteSql) = StoredFor(DeleteSql)
    /\ build.schema[SelectSql] # build.schema[DeleteSql]

(***************************************************************************)
(* Properties of the Option<T> decoder.                                    *)
(***************************************************************************)
\* C9: Option<T>::decode on a null value returns Ok(None) and does not call
\* T::decode; on a non-null value it calls T::decode once with that value and
\* returns Some(v) exactly when T::decode returns Ok(v), T's error otherwise;
\* T::decode is never given a null value; Option<T>::accepts answers as
\* T::accepts does.
C9_NullShortCircuit ==
    /\ dec.op = "decode" =>
          /\ dec.value.is_null => dec.out = Ok(None) /\ dec.inner = <<>>
          /\ ~dec.value.is_null =>
                /\ dec.inner = <<dec.value>>
                /\ TDecode(dec.T, dec.value).tag = "Ok" =>
                      dec.out = Ok(Some(TDecode(dec.T, dec.value).val))
                /\ TDecode(dec.T, dec.value).tag = "Err" =>
                      dec.out = TDecode(dec.T, dec.value)
          /\ \A i \in 1..Len(dec.inner) : ~dec.inner[i].is_null
    /\ dec.op = "accepts" => (dec.out <=> TAccepts(dec.T, dec.ty))

\* A null value of a type tag that T accepts was decoded to Ok(None).
C9_Witness ==
    /\ dec.op = "decode"
    /\ dec.value.is_null /\ TAccepts(dec.T, dec.value.type_info)
    /\ dec.out = Ok(None)

\* A non-null value that T rejects gave T's error.
C9_WitnessError ==
    /\ dec.op = "decode"
    /\ ~dec.value.is_null
    /\ dec.out.tag = "Err"

(***************************************************************************)
(* Properties of the configuration cache.                                  *)
(***************************************************************************)
\* C10: at most one initializer's result is ever stored; the cell holds that
\* value from then on; every call that returned Ok returned that value; no
\* initializer runs once a value is stored.
C10_SingleInitialization ==
    /\ Len(cell.stored) <= 1
    /\ cell.stored = <<>> => cell.value = None /\ cell.state # "Complete"
    /\ cell.stored # <<>> => cell.value = Some(cell.stored[1]) /\ cell.state = "Complete"
    /\ \A t \in Threads :
          /\ thr[t].ret.tag = "Ok" => cell.stored # <<>> /\ thr[t].ret.val = cell.stored[1]
          /\ thr[t].pc = "init" => cell.stored = <<>> /\ cell.state = "Running"
    /\ Cardinality({t \in Threads : thr[t].pc = "init"}) <= 1

\* One thread's initializer failed, another's was stored, and a third thread,
\* whose own initializer would have read a different file, got the stored one.
C10_Witness ==
    /\ cell.stored # <<>>
    /\ \E t, u, v \in Threads :
          /\ thr[t].ret.tag = "Err"
          /\ thr[u].ret = Ok(cell.stored[1]) /\ Initializer(thr[u].make_path) = thr[u].ret
          /\ thr[v].ret = Ok(cell.stored[1])
          /\ Initializer(thr[v].make_path).tag = "Ok"
          /\ Initializer(thr[v].make_path) # thr[v].ret

\* An initializer of thread t returns an error in this step.
InitializerFails(t) ==
    /\ thr[t].pc = "init"
    /\ thr'[t].pc = "idle"
    /\ thr'[t].ret.tag = "Err"

OnlySuccessStored ==
    /\ \A t \in Threads :
          thr[t].ret.tag = "Err" =>
              thr[t].ret = Initializer(thr[t].make_path) /\ cell.failed
    /\ Len(cell.stored) <= 1
    /\ \A i \in 1..Len(cell.stored) :
          \E mp \in MakePaths : Initializer(mp) = Ok(cell.stored[i])
    /\ (cell.value # None) <=> (cell.stored # <<>>)

FailureStoresNothing ==
    \A t \in Threads :
        InitializerFails(t) =>
            /\ cell.value = None /\ cell'.value = None
            /\ cell'.stored = <<>>
            /\ cell'.state = "Incomplete"

FilledCellKeepsValue ==
    cell.value # None => (cell'.value = cell.value /\ cell'.stored = cell.stored)

\* C19: a call whose initializer fails returns that initializer's error,
\* whether from make_path, from reading or from parsing, and leaves the cell
\* empty and free for the next caller; nothing is ever stored by a failed
\* initializer; the cell is filled at most once and, once filled, keeps its
\* value.
C19_FailureLeavesCacheEmpty ==
    /\ []OnlySuccessStored
    /\ [][FailureStoresNothing /\ FilledCellKeepsValue]_vars

\* A thread's first call failed on a file that does not parse; its second
\* call ran its own initializer, which succeeded and filled the cell, while
\* no other thread has called.
C19_Witness ==
    /\ cell.failed /\ cell.stored # <<>>
    /\ \E t \in Threads :
          /\ thr[t].calls = 2
          /\ thr[t].ret = Ok(cell.stored[1])
          /\ Initializer(thr[t].make_path) = thr[t].ret
          /\ \A u \in Threads \ {t} : thr[u].calls = 0

\* A call has returned the read error and the cell is still empty.
C19_WitnessFailed ==
    /\ cell.value = None /\ cell.state = "Incomplete" /\ cell.failed
    /\ \E t \in Threads :
          /\ thr[t].pc = "idle"
          /\ thr[t].ret.tag = "Err" /\ thr[t].ret.text = "error reading config file"

====
